---- MODULE Spec2Model ----
(***************************************************************************)
(* Extron SW6VGA integration: the serial client (extron_serial.py) and the *)
(* switcher (ExtronSwitcher in __init__.py).                               *)
(*                                                                         *)
(* A Python str is a sequence of one-character strings; None is the empty  *)
(* tuple and a known value v is the one-element tuple <<v>>.               *)
(***************************************************************************)
EXTENDS Integers, Sequences, FiniteSets, TLC

\* ------------------------------------------------------------- bounds
\* successful serial_for_url opens over a run
MaxStreams == 2
\* operations begun over a run: calls of connect, disconnect, set_input and
\* set_auto_mode, and lines emitted by the device
MaxOps == 3

\* ------------------------------------------------------------- strings
None == <<>>
Some(v) == <<v>>

CR == "\r"
LF == "\n"

IsSpace(ch) == ch \in {" ", "\t", "\r", "\n"}

RECURSIVE LStrip(_)
LStrip(s) == IF s # <<>> /\ IsSpace(Head(s)) THEN LStrip(Tail(s)) ELSE s

RECURSIVE RStrip(_)
RStrip(s) ==
    IF s # <<>> /\ IsSpace(s[Len(s)]) THEN RStrip(SubSeq(s, 1, Len(s) - 1)) ELSE s

\* the string left as it came
Unstripped(s) == s

\* str.strip()
Strip(s) == RStrip(LStrip(s))

\* str.startswith(p)
StartsWith(s, p) == Len(s) >= Len(p) /\ SubSeq(s, 1, Len(p)) = p

\* p in s
Contains(s, p) ==
    \E i \in 1..(Len(s) - Len(p) + 1) : SubSeq(s, i, i + Len(p) - 1) = p

\* s[k:]  (k counted from 0 as in Python)
From(s, k) == SubSeq(s, k + 1, Len(s))

\* length of the leading run of non-whitespace characters
RECURSIVE WordLen(_)
WordLen(s) == IF s = <<>> \/ IsSpace(Head(s)) THEN 0 ELSE 1 + WordLen(Tail(s))

\* str.split(): the maximal runs of non-whitespace characters, in order
RECURSIVE Split(_)
Split(s) ==
    LET t == LStrip(s)
        n == WordLen(t)
    IN  IF t = <<>> THEN <<>> ELSE <<SubSeq(t, 1, n)>> \o Split(From(t, n))

\* str.replace(p, ""), p non-empty: every occurrence of p removed, left to right
RECURSIVE Remove(_, _)
Remove(s, p) ==
    IF s = <<>> THEN <<>>
    ELSE IF StartsWith(s, p) THEN Remove(From(s, Len(p)), p)
    ELSE <<Head(s)>> \o Remove(Tail(s), p)

\* str.upper() on the characters the protocol uses
UpperCh(ch) ==
    CASE ch = "c" -> "C"
      [] ch = "v" -> "V"
      [] ch = "e" -> "E"
      [] ch = "i" -> "I"
      [] ch = "n" -> "N"
      [] OTHER -> ch

Digits == {"0", "1", "2", "3", "4", "5", "6", "7", "8", "9"}

DigitVal(ch) ==
    CASE ch = "0" -> 0 [] ch = "1" -> 1 [] ch = "2" -> 2 [] ch = "3" -> 3
      [] ch = "4" -> 4 [] ch = "5" -> 5 [] ch = "6" -> 6 [] ch = "7" -> 7
      [] ch = "8" -> 8 [] ch = "9" -> 9

RECURSIVE DigitsVal(_, _)
DigitsVal(s, acc) ==
    IF s = <<>> THEN acc
    ELSE IF Head(s) = "_" THEN DigitsVal(Tail(s), acc)
    ELSE DigitsVal(Tail(s), 10 * acc + DigitVal(Head(s)))

\* the digit groups of an int literal: digits, single underscores between them
IsIntBody(s) ==
    /\ s # <<>>
    /\ \A i \in 1..Len(s) : s[i] \in Digits \cup {"_"}
    /\ s[1] \in Digits /\ s[Len(s)] \in Digits
    /\ \A i \in 1..(Len(s) - 1) : ~(s[i] = "_" /\ s[i + 1] = "_")

\* int(s): None when Python raises ValueError, Some(value) otherwise
ParseInt(s) ==
    LET t == Strip(s)
        signed == t # <<>> /\ Head(t) \in {"+", "-"}
        body == IF signed THEN Tail(t) ELSE t
    IN  IF ~IsIntBody(body) THEN None
        ELSE IF signed /\ Head(t) = "-" THEN Some(0 - DigitsVal(body, 0))
        ELSE Some(DigitsVal(body, 0))

\* f"{n}" for the integers the callers pass
DigitStr(d) ==
    CASE d = 0 -> "0" [] d = 1 -> "1" [] d = 2 -> "2" [] d = 3 -> "3"
      [] d = 4 -> "4" [] d = 5 -> "5" [] d = 6 -> "6" [] d = 7 -> "7"
      [] d = 8 -> "8" [] d = 9 -> "9"

RECURSIVE NatStr(_)
NatStr(n) == IF n < 10 THEN <<DigitStr(n)>> ELSE NatStr(n \div 10) \o <<DigitStr(n % 10)>>

IntStr(n) == IF n < 0 THEN <<"-">> \o NatStr(0 - n) ELSE NatStr(n)

\* ------------------------------------------------------------- protocol text
In_lc == <<"I", "n">>
In_uc == <<"I", "N">>
All == <<"A", "l", "l">>
Vid == <<"V", "i", "d">>
Aud == <<"A", "u", "d">>
QVER == <<"Q", "V", "E", "R">>
Reconfig_lc == <<"R", "e", "c", "o", "n", "f", "i", "g">>
Reconfig_uc == <<"R", "E", "C", "O", "N", "F", "I", "G">>
E0 == <<"E", "0">>
E1 == <<"E", "1">>
CmdF1 == <<"F", "1">>
CmdF2 == <<"F", "2">>
CmdIDouble == <<"I", "I">>
CmdI == <<"I">>

\* ------------------------------------------------------------- _handle_message
\* The switcher fields a received line can change, as one record.
SwState(ci, ai, am, ver) ==
    [current_input |-> ci, audio_input |-> ai, auto_mode |-> am, sw_version |-> ver]

\* the chain with the front-panel branch open to any first character
KindLoose(msg) ==
    IF StartsWith(msg, In_lc) \/ StartsWith(msg, In_uc) THEN "input"
    ELSE IF StartsWith(msg, <<"V">>) /\ Contains(msg, QVER) THEN "status"
    ELSE IF Len(msg) >= 2 THEN "panel"
    ELSE "other"

\* which branch of the if/elif chain a stripped, non-empty message takes
Kind(msg) ==
    IF StartsWith(msg, In_lc) \/ StartsWith(msg, In_uc) THEN "input"
    ELSE IF StartsWith(msg, <<"V">>) /\ Contains(msg, QVER) THEN "status"
    ELSE IF UpperCh(Head(msg)) = "C" /\ Len(msg) >= 2 THEN "panel"
    ELSE IF StartsWith(msg, Reconfig_lc) \/ StartsWith(msg, Reconfig_uc) THEN "reconfig"
    ELSE IF StartsWith(msg, E0) \/ StartsWith(msg, E1) THEN "error"
    ELSE "other"

\* the "In..." branch with both inputs set whatever the keyword
ApplyInputBoth(st, msg) ==
    LET words == Split(From(msg, 2))
        current == IF words = <<>> THEN None ELSE ParseInt(words[1])
    IN  IF current = None THEN st
        ELSE [st EXCEPT !.current_input = current, !.audio_input = current]

\* the "In..." branch
ApplyInput(st, msg) ==
    IF ~(Contains(msg, All) \/ Contains(msg, Vid) \/ Contains(msg, Aud)) THEN st
    ELSE
        LET words == Split(From(msg, 2))
            current == IF words = <<>> THEN None ELSE ParseInt(words[1])
        IN  IF current = None THEN st
            ELSE [st EXCEPT
                    !.current_input =
                        IF Contains(msg, Vid) \/ Contains(msg, All) THEN current ELSE @,
                    !.audio_input =
                        IF Contains(msg, Aud) \/ Contains(msg, All) THEN current ELSE @]

\* the loop body with an "F" part that flips the mode when it names auto
ApplyPartFlip(st, part) ==
    IF StartsWith(part, <<"V">>) THEN
        LET v == ParseInt(From(part, 1))
        IN  IF v = None THEN st ELSE [st EXCEPT !.current_input = v]
    ELSE IF StartsWith(part, <<"A">>) THEN
        LET v == ParseInt(From(part, 1))
        IN  IF v = None THEN st ELSE [st EXCEPT !.audio_input = v]
    ELSE IF StartsWith(part, <<"F">>) THEN
        [st EXCEPT !.auto_mode = IF From(part, 1) = <<"2">> THEN ~@ ELSE @]
    ELSE IF StartsWith(part, QVER) THEN
        [st EXCEPT !.sw_version = Some(Remove(part, QVER))]
    ELSE st

\* the loop body with a "V" part taken for both inputs
ApplyPartBoth(st, part) ==
    IF StartsWith(part, <<"V">>) THEN
        LET v == ParseInt(From(part, 1))
        IN  IF v = None THEN st ELSE [st EXCEPT !.current_input = v, !.audio_input = v]
    ELSE IF StartsWith(part, <<"A">>) THEN
        LET v == ParseInt(From(part, 1))
        IN  IF v = None THEN st ELSE [st EXCEPT !.audio_input = v]
    ELSE IF StartsWith(part, <<"F">>) THEN
        [st EXCEPT !.auto_mode = (From(part, 1) = <<"2">>)]
    ELSE IF StartsWith(part, QVER) THEN
        [st EXCEPT !.sw_version = Some(Remove(part, QVER))]
    ELSE st

\* one iteration of the loop over the parts of a status response
ApplyPart(st, part) ==
    IF StartsWith(part, <<"V">>) THEN
        LET v == ParseInt(From(part, 1))
        IN  IF v = None THEN st ELSE [st EXCEPT !.current_input = v]
    ELSE IF StartsWith(part, <<"A">>) THEN
        LET v == ParseInt(From(part, 1))
        IN  IF v = None THEN st ELSE [st EXCEPT !.audio_input = v]
    ELSE IF StartsWith(part, <<"F">>) THEN
        [st EXCEPT !.auto_mode = (From(part, 1) = <<"2">>)]
    ELSE IF StartsWith(part, QVER) THEN
        [st EXCEPT !.sw_version = Some(Remove(part, QVER))]
    ELSE st

\* the "Cn" branch with the mode set to manual as well
ApplyPanelManual(st, msg) ==
    LET new_input == ParseInt(From(msg, 1))
    IN  IF new_input = None THEN [st EXCEPT !.auto_mode = FALSE]
        ELSE [st EXCEPT !.current_input = new_input, !.audio_input = new_input,
                        !.auto_mode = FALSE]

\* the "Cn" branch
ApplyPanel(st, msg) ==
    LET new_input == ParseInt(From(msg, 1))
    IN  IF new_input = None THEN st
        ELSE [st EXCEPT !.current_input = new_input, !.audio_input = new_input]

\* ------------------------------------------------------------- state
VARIABLES
    \* ExtronSwitcher
    current_input, audio_input, auto_mode, available, sw_version,
    \* ExtronSerialClient: _serial (0 is None, else a stream), _thread (0 is None,
    \* else a reader thread), _stop_event
    serial, thread, stop_event,
    \* the streams serial_for_url has returned, and the device behind them: the
    \* bytes it has sent that are not read yet (wire), and the bytes written to
    \* it since the last CR (written)
    nstreams, isopen, wire, written,
    \* the reader threads: position in _read_loop, its local buffer, the message
    \* handed to the callback and the status parts still to be looped over
    rpc, buffer, rmsg, rparts,
    \* the threads calling into the switcher: position, the call being executed,
    \* and send_command's frame (command, where it returns to, bytes still to write)
    pc, op, cmd, ret, pending,
    \* dispatcher_send calls made
    notifications,
    \* per reader thread: the bytes its reads have returned, and the messages
    \* it has passed to on_message
    taken, delivered,
    \* per reader thread: the switcher's fields as its last callback left them
    after,
    \* per reader thread: which of the messages it passed to on_message, by
    \* their place in `delivered`, had the callback raise
    failed,
    \* history of the call each thread is executing or executed last
    issued, wrote, logged, raised, touched, nops

swvars == <<current_input, audio_input, auto_mode, available, sw_version>>
clvars == <<serial, thread, stop_event>>
devvars == <<nstreams, isopen, wire, written>>
rdvars == <<rpc, buffer, rmsg, rparts>>
thvars == <<pc, op, cmd, ret, pending>>
histvars == <<issued, wrote, logged, raised, touched, nops>>
obsvars == <<notifications, taken, delivered, after, failed>>
vars == <<swvars, clvars, devvars, rdvars, thvars, obsvars, histvars>>

\* the thread that sets the entry up and unloads it (async_setup_entry,
\* async_unload_entry), and the executor threads that run entity commands
LC == 0
Callers == {1, 2}
Threads == {LC} \cup Callers
Streams == 1..MaxStreams
Readers == 1..MaxStreams

\* arguments of set_input: below the range, its upper edge, above the range
InputArgs == {0, 6, 7}

LinePanel == <<"C", "9">>
LineStatus == <<"V", "7", " ", "F", "2", " ", "Q", "V", "E", "R">>
\* lines the device emits in Spec and SpecCall, and in SpecLife
DeviceLines == {LinePanel, LineStatus}
LifeLines == {LinePanel}

NoOp == [kind |-> "none", n |-> 0, enable |-> FALSE, auto0 |-> FALSE, held |-> 0,
         expired |-> FALSE, closed |-> FALSE]

Init ==
    /\ current_input = None /\ audio_input = None
    /\ auto_mode = FALSE /\ available = FALSE /\ sw_version = None
    /\ serial = 0 /\ thread = 0 /\ stop_event = FALSE
    /\ nstreams = 0 /\ isopen = [s \in Streams |-> FALSE]
    /\ wire = <<>> /\ written = <<>>
    /\ rpc = [r \in Readers |-> "none"]
    /\ buffer = [r \in Readers |-> <<>>]
    /\ rmsg = [r \in Readers |-> <<>>]
    /\ rparts = [r \in Readers |-> <<>>]
    /\ pc = [t \in Threads |-> "idle"]
    /\ op = [t \in Threads |-> NoOp]
    /\ cmd = [t \in Threads |-> <<>>]
    /\ ret = [t \in Threads |-> "idle"]
    /\ pending = [t \in Threads |-> [s |-> 0, bytes |-> <<>>]]
    /\ notifications = 0
    /\ taken = [r \in Readers |-> <<>>]
    /\ delivered = [r \in Readers |-> <<>>]
    /\ after = [r \in Readers |-> SwState(None, None, FALSE, None)]
    /\ failed = [r \in Readers |-> {}]
    /\ issued = [t \in Threads |-> <<>>]
    /\ wrote = [t \in Threads |-> <<>>]
    /\ logged = [t \in Threads |-> FALSE]
    /\ raised = [t \in Threads |-> FALSE]
    /\ touched = [t \in Threads |-> FALSE]
    /\ nops = 0

\* a stream object exists, whatever the state of its port
IsOpenStale(ser) == ser # 0

\* a stream object exists and its port is open
IsOpen(ser) == IF ser = 0 THEN FALSE ELSE isopen[ser]

Alive(r) == r # 0 /\ rpc[r] \notin {"none", "dead"}

\* the executor hands a call to its first free thread
FirstFree(t) == pc[t] = "idle" /\ \A u \in Callers : u < t => pc[u] # "idle"

\* a call begins on thread t: its history starts empty
BeginCall(t) ==
    /\ logged' = [logged EXCEPT ![t] = FALSE]
    /\ raised' = [raised EXCEPT ![t] = FALSE]
    /\ touched' = [touched EXCEPT ![t] = FALSE]

\* auto_mode is assigned by thread t (a reader thread when t is no caller)
Touch(t) == [u \in Threads |-> IF u = t THEN touched[u] ELSE TRUE]

\* ------------------------------------------------------------- send_command
\* send_command(command) is entered, to return to pc value `to`
EnterSend(t, command, to) ==
    /\ pc' = [pc EXCEPT ![t] = "sc_check"]
    /\ cmd' = [cmd EXCEPT ![t] = command]
    /\ ret' = [ret EXCEPT ![t] = to]

\* cmd_str = command + "\r"
CmdStr(command) == command \o <<CR>>

\* `if not self._serial: ... return`, the warning logged
ScCheck(t) ==
    /\ pc[t] = "sc_check"
    /\ pc' = [pc EXCEPT ![t] = IF serial = 0 THEN ret[t] ELSE "sc_write"]
    /\ op' = [op EXCEPT ![t].closed = @ \/ serial = 0]
    /\ UNCHANGED <<cmd, ret, pending>>
    /\ UNCHANGED <<swvars, clvars, devvars, rdvars, obsvars, histvars>>

\* self._serial.write(...) is entered: it raises when _serial is None by now
\* (AttributeError) or the port is closed, and send_command catches everything
ScWriteRaise(t) ==
    /\ pc[t] = "sc_write"
    /\ ~IsOpen(serial)
    /\ pc' = [pc EXCEPT ![t] = ret[t]]
    /\ UNCHANGED <<op, cmd, ret, pending>>
    /\ UNCHANGED <<swvars, clvars, devvars, rdvars, obsvars, histvars>>

\* the write fails with an I/O error before any byte is out
ScWriteIOError(t) ==
    /\ pc[t] = "sc_write"
    /\ IsOpen(serial)
    /\ pc' = [pc EXCEPT ![t] = ret[t]]
    /\ UNCHANGED <<op, cmd, ret, pending>>
    /\ UNCHANGED <<swvars, clvars, devvars, rdvars, obsvars, histvars>>

\* the write starts on the open port
ScWriteBegin(t) ==
    /\ pc[t] = "sc_write"
    /\ IsOpen(serial)
    /\ pc' = [pc EXCEPT ![t] = "sc_bytes"]
    /\ pending' = [pending EXCEPT ![t] = [s |-> serial, bytes |-> CmdStr(cmd[t])]]
    /\ UNCHANGED <<op, cmd, ret>>
    /\ UNCHANGED <<swvars, clvars, devvars, rdvars, obsvars, histvars>>

\* the device's side of the port: it collects the bytes written to it and
\* takes them as one command at each CR
DeviceTakes(got, ch) == IF ch = CR THEN <<>> ELSE Append(got, ch)

\* the port's write puts the next byte out; no lock is held around it
ScByte(t) ==
    /\ pc[t] = "sc_bytes"
    /\ isopen[pending[t].s]
    /\ pending[t].bytes # <<>>
    /\ written' = DeviceTakes(written, Head(pending[t].bytes))
    /\ pending' = [pending EXCEPT ![t].bytes = Tail(@)]
    /\ UNCHANGED <<pc, op, cmd, ret>>
    /\ UNCHANGED <<nstreams, isopen, wire>>
    /\ UNCHANGED <<swvars, clvars, rdvars, obsvars, histvars>>

\* every byte is out: write returns, and send_command with it
ScWriteEnd(t) ==
    /\ pc[t] = "sc_bytes"
    /\ isopen[pending[t].s]
    /\ pending[t].bytes = <<>>
    /\ pc' = [pc EXCEPT ![t] = ret[t]]
    /\ wrote' = [wrote EXCEPT ![t] = Append(@, CmdStr(cmd[t]))]
    /\ pending' = [pending EXCEPT ![t] = [s |-> 0, bytes |-> <<>>]]
    /\ UNCHANGED <<op, cmd, ret>>
    /\ UNCHANGED <<issued, logged, raised, touched, nops>>
    /\ UNCHANGED <<swvars, clvars, devvars, rdvars, obsvars>>

\* the write raises part-way, on an I/O error or because the port was closed
\* under it, and send_command catches it
ScWriteAbort(t) ==
    /\ pc[t] = "sc_bytes"
    /\ pc' = [pc EXCEPT ![t] = ret[t]]
    /\ pending' = [pending EXCEPT ![t] = [s |-> 0, bytes |-> <<>>]]
    /\ UNCHANGED <<op, cmd, ret>>
    /\ UNCHANGED <<swvars, clvars, devvars, rdvars, obsvars, histvars>>

SendCommand(t) ==
    \/ ScCheck(t) \/ ScWriteRaise(t) \/ ScWriteIOError(t) \/ ScWriteBegin(t)
    \/ ScByte(t) \/ ScWriteEnd(t) \/ ScWriteAbort(t)

\* ------------------------------------------------------------- set_input
\* the auto-switch command sent in place of the manual one
ModeOffCmdSwapped == CmdF2

\* the command that takes the device out of auto-switch mode
ModeOffCmd == CmdF1

\* the input number sent without its "!"
InputCmdBare(n) == IntStr(n)

\* f"{input_number}!"
InputCmd(n) == IntStr(n) \o <<"!">>

\* 0 < input_number <= 6
InRange(n) == 0 < n /\ n <= 6

\* set_input(n) is called: `if self.auto_mode:` is evaluated
SetInput(t, n) ==
    /\ FirstFree(t) /\ nops < MaxOps
    /\ nops' = nops + 1
    /\ op' = [op EXCEPT ![t] = [NoOp EXCEPT !.kind = "set_input", !.n = n,
                                            !.auto0 = auto_mode]]
    /\ BeginCall(t)
    /\ wrote' = [wrote EXCEPT ![t] = <<>>]
    /\ IF auto_mode
       THEN /\ EnterSend(t, ModeOffCmd, "si_set")
            /\ issued' = [issued EXCEPT ![t] = <<ModeOffCmd>>]
       ELSE /\ pc' = [pc EXCEPT ![t] = "si_range"]
            /\ issued' = [issued EXCEPT ![t] = <<>>]
            /\ UNCHANGED <<cmd, ret>>
    /\ UNCHANGED pending
    /\ UNCHANGED <<swvars, clvars, devvars, rdvars, obsvars>>

\* self.auto_mode = False, after send_command("F1") has returned
SiSet(t) ==
    /\ pc[t] = "si_set"
    /\ auto_mode' = FALSE
    /\ touched' = Touch(t)
    /\ pc' = [pc EXCEPT ![t] = "si_range"]
    /\ UNCHANGED <<op, cmd, ret, pending>>
    /\ UNCHANGED <<current_input, audio_input, available, sw_version>>
    /\ UNCHANGED <<issued, wrote, logged, raised, nops>>
    /\ UNCHANGED <<clvars, devvars, rdvars, obsvars>>

\* the range check, then the input select command or the error log
SiRange(t) ==
    /\ pc[t] = "si_range"
    /\ IF InRange(op[t].n)
       THEN /\ EnterSend(t, InputCmd(op[t].n), "idle")
            /\ issued' = [issued EXCEPT ![t] = Append(@, InputCmd(op[t].n))]
            /\ UNCHANGED logged
       ELSE /\ pc' = [pc EXCEPT ![t] = "idle"]
            /\ logged' = [logged EXCEPT ![t] = TRUE]
            /\ UNCHANGED <<cmd, ret, issued>>
    /\ UNCHANGED <<op, pending>>
    /\ UNCHANGED <<wrote, raised, touched, nops>>
    /\ UNCHANGED <<swvars, clvars, devvars, rdvars, obsvars>>

\* ------------------------------------------------------------- set_auto_mode
\* cmd = "F2" if enable else "F1"
ModeCmd(enable) == IF enable THEN CmdF2 ELSE CmdF1

\* set_auto_mode(enable) is called: send_command(cmd) is entered
SetAutoMode(t, enable) ==
    /\ FirstFree(t) /\ nops < MaxOps
    /\ nops' = nops + 1
    /\ op' = [op EXCEPT ![t] = [NoOp EXCEPT !.kind = "set_auto_mode",
                                            !.enable = enable, !.auto0 = auto_mode]]
    /\ BeginCall(t)
    /\ wrote' = [wrote EXCEPT ![t] = <<>>]
    /\ EnterSend(t, ModeCmd(enable), "sam_set")
    /\ issued' = [issued EXCEPT ![t] = <<ModeCmd(enable)>>]
    /\ UNCHANGED pending
    /\ UNCHANGED <<swvars, clvars, devvars, rdvars, obsvars>>

\* self.auto_mode = enable, after send_command has returned
SamSet(t) ==
    /\ pc[t] = "sam_set"
    /\ auto_mode' = op[t].enable
    /\ touched' = Touch(t)
    /\ pc' = [pc EXCEPT ![t] = "idle"]
    /\ UNCHANGED <<op, cmd, ret, pending>>
    /\ UNCHANGED <<current_input, audio_input, available, sw_version>>
    /\ UNCHANGED <<issued, wrote, logged, raised, nops>>
    /\ UNCHANGED <<clvars, devvars, rdvars, obsvars>>

\* ------------------------------------------------------------- connect
\* serial_for_url raises: connect re-raises, nothing else has run
ConnectFail ==
    /\ pc[LC] = "idle" /\ nops < MaxOps
    /\ nops' = nops + 1
    /\ op' = [op EXCEPT ![LC] = [NoOp EXCEPT !.kind = "connect"]]
    /\ raised' = [raised EXCEPT ![LC] = TRUE]
    /\ logged' = [logged EXCEPT ![LC] = FALSE]
    /\ touched' = [touched EXCEPT ![LC] = FALSE]
    /\ issued' = [issued EXCEPT ![LC] = <<>>]
    /\ wrote' = [wrote EXCEPT ![LC] = <<>>]
    /\ UNCHANGED <<pc, cmd, ret, pending>>
    /\ UNCHANGED <<swvars, clvars, devvars, rdvars, obsvars>>

\* self._serial = serial.serial_for_url(...) returns a new open stream
ConnectOpen ==
    /\ pc[LC] = "idle" /\ nstreams < MaxStreams /\ nops < MaxOps
    /\ nops' = nops + 1
    /\ op' = [op EXCEPT ![LC] = [NoOp EXCEPT !.kind = "connect"]]
    /\ BeginCall(LC)
    /\ issued' = [issued EXCEPT ![LC] = <<>>]
    /\ wrote' = [wrote EXCEPT ![LC] = <<>>]
    /\ nstreams' = nstreams + 1
    /\ isopen' = [isopen EXCEPT ![nstreams + 1] = TRUE]
    /\ serial' = nstreams + 1
    /\ pc' = [pc EXCEPT ![LC] = "c_clear"]
    /\ UNCHANGED <<cmd, ret, pending>>
    /\ UNCHANGED <<thread, stop_event, wire, written>>
    /\ UNCHANGED <<swvars, rdvars, obsvars>>

\* self._stop_event.clear()
CClear ==
    /\ pc[LC] = "c_clear"
    /\ stop_event' = FALSE
    /\ pc' = [pc EXCEPT ![LC] = "c_start"]
    /\ UNCHANGED <<op, cmd, ret, pending, serial, thread>>
    /\ UNCHANGED <<swvars, devvars, rdvars, obsvars, histvars>>

\* self._thread = threading.Thread(target=self._read_loop, ...); start()
CStart ==
    /\ pc[LC] = "c_start"
    /\ thread' = nstreams
    /\ rpc' = [rpc EXCEPT ![nstreams] = "loop"]
    /\ pc' = [pc EXCEPT ![LC] = "c_avail"]
    /\ UNCHANGED <<op, cmd, ret, pending, serial, stop_event>>
    /\ UNCHANGED <<buffer, rmsg, rparts>>
    /\ UNCHANGED <<swvars, devvars, obsvars, histvars>>

\* back in ExtronSwitcher.connect: self.available = True, then send_command("I")
CAvail ==
    /\ pc[LC] = "c_avail"
    /\ available' = TRUE
    /\ EnterSend(LC, CmdI, "idle")
    /\ issued' = [issued EXCEPT ![LC] = Append(@, CmdI)]
    /\ UNCHANGED <<op, pending>>
    /\ UNCHANGED <<current_input, audio_input, auto_mode, sw_version>>
    /\ UNCHANGED <<wrote, logged, raised, touched, nops>>
    /\ UNCHANGED <<clvars, devvars, rdvars, obsvars>>

Connect == ConnectFail \/ ConnectOpen \/ CClear \/ CStart \/ CAvail

\* ------------------------------------------------------------- disconnect
\* disconnect is called: self._stop_event.set()
Disconnect ==
    /\ pc[LC] = "idle" /\ nops < MaxOps
    /\ nops' = nops + 1
    /\ op' = [op EXCEPT ![LC] = [NoOp EXCEPT !.kind = "disconnect"]]
    /\ BeginCall(LC)
    /\ issued' = [issued EXCEPT ![LC] = <<>>]
    /\ wrote' = [wrote EXCEPT ![LC] = <<>>]
    /\ stop_event' = TRUE
    /\ pc' = [pc EXCEPT ![LC] = "d_join"]
    /\ UNCHANGED <<cmd, ret, pending, serial, thread>>
    /\ UNCHANGED <<swvars, devvars, rdvars, obsvars>>

\* `if self._thread and self._thread.is_alive(): self._thread.join(timeout=2.0)`
\* returns: there was nothing to wait for, or the thread has ended, or the two
\* seconds are over
JoinReturns(r) == TRUE

DJoin ==
    /\ pc[LC] = "d_join"
    /\ JoinReturns(thread)
    /\ op' = [op EXCEPT ![LC].expired = Alive(thread)]
    /\ pc' = [pc EXCEPT ![LC] = "d_close"]
    /\ UNCHANGED <<cmd, ret, pending>>
    /\ UNCHANGED <<swvars, clvars, devvars, rdvars, obsvars, histvars>>

\* the close skipped while the reader thread has not ended
ClosesOnlyAfterReader(ser) == ser # 0 /\ ~Alive(thread)

\* `if self._serial:` guards the close
ClosesOnDisconnect(ser) == ser # 0

\* self._serial.close()
DClose ==
    /\ pc[LC] = "d_close"
    /\ isopen' = IF ClosesOnDisconnect(serial)
                 THEN [isopen EXCEPT ![serial] = FALSE] ELSE isopen
    /\ op' = [op EXCEPT ![LC].held = serial]
    /\ pc' = [pc EXCEPT ![LC] = "d_none"]
    /\ UNCHANGED <<cmd, ret, pending>>
    /\ UNCHANGED <<nstreams, wire, written>>
    /\ UNCHANGED <<swvars, clvars, rdvars, obsvars, histvars>>

\* self._serial = None; self._thread = None
DNone ==
    /\ pc[LC] = "d_none"
    /\ serial' = 0 /\ thread' = 0
    /\ pc' = [pc EXCEPT ![LC] = "d_avail"]
    /\ UNCHANGED <<op, cmd, ret, pending, stop_event>>
    /\ UNCHANGED <<swvars, devvars, rdvars, obsvars, histvars>>

\* back in ExtronSwitcher.disconnect: self.available = False
DAvail ==
    /\ pc[LC] = "d_avail"
    /\ available' = FALSE
    /\ pc' = [pc EXCEPT ![LC] = "idle"]
    /\ UNCHANGED <<op, cmd, ret, pending>>
    /\ UNCHANGED <<current_input, audio_input, auto_mode, sw_version>>
    /\ UNCHANGED <<clvars, devvars, rdvars, obsvars, histvars>>

DisconnectStep == DJoin \/ DClose \/ DNone \/ DAvail

\* ------------------------------------------------------------- _read_loop
\* `while not self._stop_event.is_set():` leads into the read or out of the loop
LoopTest == IF stop_event THEN "finally" ELSE "read"

\* the thread starts running: the loop condition is tested for the first time
RLoop(r) ==
    /\ rpc[r] = "loop"
    /\ rpc' = [rpc EXCEPT ![r] = LoopTest]
    /\ UNCHANGED <<buffer, rmsg, rparts>>
    /\ UNCHANGED <<swvars, clvars, devvars, thvars, obsvars, histvars>>

\* self._serial.read(1) raises: _serial is None (AttributeError) or closed
RReadRaise(r) ==
    /\ rpc[r] = "read"
    /\ ~IsOpen(serial)
    /\ rpc' = [rpc EXCEPT ![r] = "finally"]
    /\ UNCHANGED <<buffer, rmsg, rparts>>
    /\ UNCHANGED <<swvars, clvars, devvars, thvars, obsvars, histvars>>

\* self._serial.read(1) raises an I/O error on the open port
RReadIOError(r) ==
    /\ rpc[r] = "read"
    /\ IsOpen(serial)
    /\ rpc' = [rpc EXCEPT ![r] = "finally"]
    /\ UNCHANGED <<buffer, rmsg, rparts>>
    /\ UNCHANGED <<swvars, clvars, devvars, thvars, obsvars, histvars>>

\* the read times out with no data: `if not ch: continue`
RReadTimeout(r) ==
    /\ rpc[r] = "read"
    /\ IsOpen(serial)
    /\ wire = <<>>
    /\ rpc' = [rpc EXCEPT ![r] = LoopTest]
    /\ UNCHANGED <<buffer, rmsg, rparts>>
    /\ UNCHANGED <<swvars, clvars, devvars, thvars, obsvars, histvars>>

\* a byte that is no character on its own: part of a multi-byte sequence, or
\* invalid
Undecodable == "xFF"

\* bytes.decode(errors="ignore") of the one byte read: the character, or ""
Decode(b) == IF b = Undecodable THEN <<>> ELSE <<b>>

\* CR alone taken for the end of a line
IsTerminatorCR(ch) == ch = CR

\* `if ch in ("\r", "\n"):`
IsTerminator(ch) == ch \in {CR, LF}

\* the read returns one byte, and the loop body deals with it
RReadChar(r) ==
    /\ rpc[r] = "read"
    /\ IsOpen(serial)
    /\ wire # <<>>
    /\ wire' = Tail(wire)
    /\ taken' = [taken EXCEPT ![r] = Append(@, Head(wire))]
    /\ LET ch == Decode(Head(wire))
       IN  IF ch = <<>>
           THEN /\ rpc' = [rpc EXCEPT ![r] = LoopTest]
                /\ UNCHANGED <<buffer, rmsg, delivered>>
           ELSE IF IsTerminator(ch[1])
           THEN IF buffer[r] # <<>>
                THEN /\ rmsg' = [rmsg EXCEPT ![r] = buffer[r]]
                     /\ buffer' = [buffer EXCEPT ![r] = <<>>]
                     /\ delivered' = [delivered EXCEPT ![r] = Append(@, buffer[r])]
                     /\ rpc' = [rpc EXCEPT ![r] = "callback"]
                ELSE /\ rpc' = [rpc EXCEPT ![r] = LoopTest]
                     /\ UNCHANGED <<buffer, rmsg, delivered>>
           ELSE /\ buffer' = [buffer EXCEPT ![r] = @ \o ch]
                /\ rpc' = [rpc EXCEPT ![r] = LoopTest]
                /\ UNCHANGED <<rmsg, delivered>>
    /\ UNCHANGED <<rparts, notifications, after, failed>>
    /\ UNCHANGED <<nstreams, isopen, written>>
    /\ UNCHANGED <<swvars, clvars, thvars, histvars>>

\* the finally clause: `if self._serial: self._serial.close()`, and the thread ends
RFinally(r) ==
    /\ rpc[r] = "finally"
    /\ isopen' = IF serial # 0 THEN [isopen EXCEPT ![serial] = FALSE] ELSE isopen
    /\ rpc' = [rpc EXCEPT ![r] = "dead"]
    /\ UNCHANGED <<buffer, rmsg, rparts>>
    /\ UNCHANGED <<nstreams, wire, written>>
    /\ UNCHANGED <<swvars, clvars, thvars, obsvars, histvars>>

\* ------------------------------------------------------------- on_message
St == SwState(current_input, audio_input, auto_mode, sw_version)

SetSt(st) ==
    /\ current_input' = st.current_input
    /\ audio_input' = st.audio_input
    /\ auto_mode' = st.auto_mode
    /\ sw_version' = st.sw_version

\* _handle_message(msg) is entered: strip, the empty check, and the branch taken;
\* a status response goes on to its loop over the parts
HandleBegin(r) ==
    /\ rpc[r] = "callback"
    /\ LET msg == Strip(rmsg[r])
       IN  IF msg = <<>>
           THEN /\ rpc' = [rpc EXCEPT ![r] = LoopTest]
                /\ after' = [after EXCEPT ![r] = St]
                /\ UNCHANGED <<rparts, current_input, audio_input, auto_mode, sw_version>>
           ELSE /\ rpc' = [rpc EXCEPT ![r] = "handle"]
                /\ rparts' = [rparts EXCEPT ![r] =
                                IF Kind(msg) = "status" THEN Split(msg) ELSE <<>>]
                /\ SetSt(CASE Kind(msg) = "input" -> ApplyInput(St, msg)
                           [] Kind(msg) = "panel" -> ApplyPanel(St, msg)
                           [] OTHER -> St)
                /\ UNCHANGED after
    /\ UNCHANGED <<buffer, rmsg, available>>
    /\ UNCHANGED <<notifications, taken, delivered, failed>>
    /\ UNCHANGED <<clvars, devvars, thvars, histvars>>

\* one iteration of `for part in parts:`
HandlePart(r) ==
    /\ rpc[r] = "handle"
    /\ rparts[r] # <<>>
    /\ SetSt(ApplyPart(St, Head(rparts[r])))
    /\ rparts' = [rparts EXCEPT ![r] = Tail(@)]
    /\ touched' = IF StartsWith(Head(rparts[r]), <<"F">>)
                  THEN [u \in Threads |-> TRUE] ELSE touched
    /\ UNCHANGED <<rpc, buffer, rmsg, available>>
    /\ UNCHANGED <<issued, wrote, logged, raised, nops>>
    /\ UNCHANGED <<clvars, devvars, thvars, obsvars>>

\* dispatcher_send(self.hass, SIGNAL_SW6_UPDATE), and the callback returns
HandleNotify(r) ==
    /\ rpc[r] = "handle"
    /\ rparts[r] = <<>>
    /\ notifications' = notifications + 1
    /\ after' = [after EXCEPT ![r] = St]
    /\ rpc' = [rpc EXCEPT ![r] = LoopTest]
    /\ UNCHANGED <<buffer, rmsg, rparts, taken, delivered, failed>>
    /\ UNCHANGED <<swvars, clvars, devvars, thvars, histvars>>

\* the exception of the callback left to end the loop
CallbackEscapes == "finally"

\* `except Exception as e: _LOGGER.exception(...)` around on_message: the
\* loop goes on with its next iteration
CallbackCaught == LoopTest

\* dispatcher_send is called and raises: the callback ends with an exception
HandleRaise(r) ==
    /\ rpc[r] = "handle"
    /\ rparts[r] = <<>>
    /\ notifications' = notifications + 1
    /\ after' = [after EXCEPT ![r] = St]
    /\ failed' = [failed EXCEPT ![r] = @ \cup {Len(delivered[r])}]
    /\ rpc' = [rpc EXCEPT ![r] = CallbackCaught]
    /\ UNCHANGED <<buffer, rmsg, rparts, taken, delivered>>
    /\ UNCHANGED <<swvars, clvars, devvars, thvars, histvars>>

HandleMessage(r) == HandleBegin(r) \/ HandlePart(r) \/ HandleNotify(r)

ReadLoop(r) ==
    \/ RLoop(r) \/ RReadRaise(r) \/ RReadIOError(r) \/ RReadTimeout(r)
    \/ RReadChar(r) \/ RFinally(r)

\* ------------------------------------------------------------- the device
\* the device emits a line, CR-terminated
DeviceSend(line) ==
    /\ wire = <<>> /\ nops < MaxOps
    /\ wire' = line \o <<CR>>
    /\ nops' = nops + 1
    /\ UNCHANGED <<nstreams, isopen, written>>
    /\ UNCHANGED <<issued, wrote, logged, raised, touched>>
    /\ UNCHANGED <<swvars, clvars, rdvars, thvars, obsvars>>

\* ------------------------------------------------------------- specification
Next ==
    \/ Connect
    \/ Disconnect
    \/ DisconnectStep
    \/ \E t \in Threads : SendCommand(t)
    \/ \E t \in Callers, n \in InputArgs : SetInput(t, n)
    \/ \E t \in Callers : SiSet(t) \/ SiRange(t)
    \/ \E t \in Callers, enable \in BOOLEAN : SetAutoMode(t, enable)
    \/ \E t \in Callers : SamSet(t)
    \/ \E r \in Readers : ReadLoop(r)
    \/ \E r \in Readers : HandleMessage(r)
    \/ \E line \in DeviceLines : DeviceSend(line)

Spec == Init /\ [][Next]_vars

\* The setup thread and the reader threads alone: no entity command is called,
\* and the device emits no status response, so no loop over parts runs.
NextLife ==
    \/ Connect
    \/ Disconnect
    \/ DisconnectStep
    \/ SendCommand(LC)
    \/ \E r \in Readers : ReadLoop(r)
    \/ \E r \in Readers : HandleBegin(r) \/ HandleNotify(r)
    \/ \E line \in LifeLines : DeviceSend(line)

SpecLife == Init /\ [][NextLife]_vars

\* The state connect() leaves when it has returned and the reader thread is in
\* its read: the entity commands are called either before any connect or then.
Connected ==
    /\ current_input = None /\ audio_input = None
    /\ auto_mode = FALSE /\ available = TRUE /\ sw_version = None
    /\ serial = 1 /\ thread = 1 /\ stop_event = FALSE
    /\ nstreams = 1 /\ isopen = [s \in Streams |-> s = 1]
    /\ wire = <<>> /\ written = <<>>
    /\ rpc = [r \in Readers |-> IF r = 1 THEN "loop" ELSE "none"]
    /\ buffer = [r \in Readers |-> <<>>]
    /\ rmsg = [r \in Readers |-> <<>>]
    /\ rparts = [r \in Readers |-> <<>>]
    /\ pc = [t \in Threads |-> "idle"]
    /\ op = [t \in Threads |-> IF t = LC THEN [NoOp EXCEPT !.kind = "connect"] ELSE NoOp]
    /\ cmd = [t \in Threads |-> IF t = LC THEN CmdI ELSE <<>>]
    /\ ret = [t \in Threads |-> "idle"]
    /\ pending = [t \in Threads |-> [s |-> 0, bytes |-> <<>>]]
    /\ notifications = 0
    /\ taken = [r \in Readers |-> <<>>]
    /\ delivered = [r \in Readers |-> <<>>]
    /\ after = [r \in Readers |-> SwState(None, None, FALSE, None)]
    /\ failed = [r \in Readers |-> {}]
    /\ issued = [t \in Threads |-> IF t = LC THEN <<CmdI>> ELSE <<>>]
    /\ wrote = [t \in Threads |-> IF t = LC THEN <<CmdStr(CmdI)>> ELSE <<>>]
    /\ logged = [t \in Threads |-> FALSE]
    /\ raised = [t \in Threads |-> FALSE]
    /\ touched = [t \in Threads |-> FALSE]
    /\ nops = 1

InitCall == Init \/ Connected

\* The entity commands, the reader thread and the device: no connect or
\* disconnect runs while they do.
NextCall ==
    \/ \E t \in Callers : SendCommand(t)
    \/ \E t \in Callers, n \in InputArgs : SetInput(t, n)
    \/ \E t \in Callers : SiSet(t) \/ SiRange(t)
    \/ \E t \in Callers, enable \in BOOLEAN : SetAutoMode(t, enable)
    \/ \E t \in Callers : SamSet(t)
    \/ \E r \in Readers : RLoop(r) \/ RReadIOError(r) \/ RReadTimeout(r)
    \/ \E r \in Readers : RReadChar(r) \/ RFinally(r)
    \/ \E r \in Readers : HandleMessage(r)
    \/ \E line \in DeviceLines : DeviceSend(line)

SpecCall == InitCall /\ [][NextCall]_vars

\* Connected is a state of Spec: this is violated there
ConnectedUnreachable == ~Connected

\* The client, the setup thread and one executor thread, with a silent device:
\* nothing arrives to be read.
OneCaller == {1}

NextSend ==
    \/ Connect
    \/ Disconnect
    \/ DisconnectStep
    \/ \E t \in {LC} \cup OneCaller : SendCommand(t)
    \/ \E t \in OneCaller, n \in InputArgs : SetInput(t, n)
    \/ \E t \in OneCaller : SiSet(t) \/ SiRange(t)
    \/ \E t \in OneCaller, enable \in BOOLEAN : SetAutoMode(t, enable)
    \/ \E t \in OneCaller : SamSet(t)
    \/ \E r \in Readers : RLoop(r) \/ RReadRaise(r) \/ RReadIOError(r)
    \/ \E r \in Readers : RReadTimeout(r) \/ RFinally(r)

SpecSend == Init /\ [][NextSend]_vars

\* ------------------------------------------------------------- the reader alone
\* lines the device emits in SpecRead: input confirmations, status responses,
\* front-panel changes, each also with a number that does not parse; two error
\* codes, a reconfiguration notice, a line of no known form, and a line of
\* white space only
LineAll == <<"I", "n", "5", " ", "A", "l", "l">>
LineVid == <<"I", "n", "2", " ", "V", "i", "d">>
LineAud == <<"I", "n", "4", " ", "A", "u", "d">>
LineInBad == <<"I", "n", "x", " ", "A", "l", "l">>
LineDump ==
    <<"V", "3", " ", "A", "4", " ", "F", "2", " ", "Q", "V", "E", "R",
        "1", ".", "2", " ", "M", "6">>
LineDumpBad ==
    <<"V", "x", " ", "A", "1", " ", "F", "1", " ", "Q", "V", "E", "R",
        "7">>
LinePanel4 == <<"c", "4">>
LinePanelBad == <<"C", "x">>
LineE06 == <<"E", "0", "6">>
LineE13 == <<"E", "1", "3">>
LineReconfig == <<"R", "e", "c", "o", "n", "f", "i", "g">>
LineOther == <<"X">>
LineBlank == <<" ">>
ReadLines ==
    {LineAll, LineVid, LineAud, LineInBad, LineDump, LineDumpBad,
     LinePanel4, LinePanelBad, LineE06, LineE13, LineReconfig, LineOther,
     LineBlank}

\* lines the device emits over a run of SpecRead
MaxLines == 3

RECURSIVE NDelivered(_)
\* messages passed to on_message by the reader threads 1..k
NDelivered(k) == IF k = 0 THEN 0 ELSE Len(delivered[k]) + NDelivered(k - 1)

\* the device emits a line, CR-terminated, once the line before it is read
DeviceLine(line) ==
    /\ wire = <<>> /\ NDelivered(MaxStreams) < MaxLines
    /\ wire' = line \o <<CR>>
    /\ UNCHANGED <<nstreams, isopen, written>>
    /\ UNCHANGED <<swvars, clvars, rdvars, thvars, obsvars, histvars>>

\* The reader thread of a connected client and the device: no entity command
\* is called and no connect or disconnect runs.
NextRead ==
    \/ \E r \in Readers : RLoop(r) \/ RReadIOError(r) \/ RReadTimeout(r)
    \/ \E r \in Readers : RReadChar(r) \/ RFinally(r)
    \/ \E r \in Readers : HandleMessage(r)
    \/ \E line \in ReadLines : DeviceLine(line)

SpecRead == Connected /\ [][NextRead]_vars

\* ------------------------------------------------------------- framing
\* bytes the device emits in SpecFrame, one at a time: the two line ends, two
\* characters, and a byte that does not decode
FrameBytes == {CR, LF, "c", "4", Undecodable}

\* bytes the device emits over a run of SpecFrame
MaxBytes == 5

RECURSIVE NTaken(_)
\* bytes read by the reader threads 1..k
NTaken(k) == IF k = 0 THEN 0 ELSE Len(taken[k]) + NTaken(k - 1)

\* the device emits one byte, once the byte before it is read
DeviceByte(b) ==
    /\ wire = <<>> /\ NTaken(MaxStreams) < MaxBytes
    /\ wire' = <<b>>
    /\ UNCHANGED <<nstreams, isopen, written>>
    /\ UNCHANGED <<swvars, clvars, rdvars, thvars, obsvars, histvars>>

\* The reader thread of a connected client, fed byte by byte; no status
\* response fits in, so no loop over parts runs.
NextFrame ==
    \/ \E r \in Readers : RLoop(r) \/ RReadIOError(r) \/ RReadTimeout(r)
    \/ \E r \in Readers : RReadChar(r) \/ RFinally(r)
    \/ \E r \in Readers : HandleBegin(r) \/ HandleNotify(r)
    \/ \E b \in FrameBytes : DeviceByte(b)

SpecFrame == Connected /\ [][NextFrame]_vars

\* The same reader and device, with a dispatcher that may fail when called.
NextErr ==
    \/ \E r \in Readers : RLoop(r) \/ RReadIOError(r) \/ RReadTimeout(r)
    \/ \E r \in Readers : RReadChar(r) \/ RFinally(r)
    \/ \E r \in Readers : HandleBegin(r) \/ HandleNotify(r) \/ HandleRaise(r)
    \/ \E b \in FrameBytes : DeviceByte(b)

SpecErr == Connected /\ [][NextErr]_vars

\* ------------------------------------------------------------- claims
\* thread t has returned from a call of the method `kind`
Returned(t, kind) == pc[t] = "idle" /\ op[t].kind = kind

\* "<n>!\r" for a one-digit n, spelled out
InputLine(n) == <<DigitStr(n), "!", CR>>

\* "F1\r"
ModeOffLine == <<"F", "1", CR>>

\* C1: set_input(n) with n outside 1..6 hands no command to the stream, neither a
\* mode command nor an input command, leaves auto_mode as it found it, and has
\* logged the error when it returns.
C1_OutOfRangeSendsNothing ==
    \A t \in Callers :
        (op[t].kind = "set_input" /\ op[t].n \notin 1..6) =>
            /\ issued[t] = <<>>
            /\ (~touched[t] => auto_mode = op[t].auto0)
            /\ (pc[t] = "idle" => logged[t])

\* C2: current_input and audio_input are each unknown or an integer in 1..6.
C2_InputsInRange ==
    /\ current_input = None \/ current_input[1] \in 1..6
    /\ audio_input = None \/ audio_input[1] \in 1..6

\* C3: available implies that the client holds a stream and that it is open.
C3_AvailableImpliesOpen == available => IsOpen(serial)

\* C4: at most one thread is inside the stream's write at any time.
C4_WritesMutuallyExclusive ==
    Cardinality({t \in Threads : pc[t] = "sc_bytes"}) <= 1

\* C5: when no write of a set_input or set_auto_mode call got through, auto_mode
\* is, on return, what it was when the call began (no other thread having
\* assigned it meanwhile).
C5_FailedWriteLeavesState ==
    \A t \in Callers :
        (/\ Returned(t, "set_input") \/ Returned(t, "set_auto_mode")
         /\ issued[t] # <<>> /\ wrote[t] = <<>>
         /\ ~touched[t]) => auto_mode = op[t].auto0

\* C6: at most one reader thread is in the read loop at any time.
InLoop(r) == rpc[r] \in {"loop", "read", "callback", "handle"}

C6_AtMostOneReader == Cardinality({r \in Readers : InLoop(r)}) <= 1

\* C7: disconnect can always take its next step, whatever the reader thread is
\* doing, and when it has returned it has not raised, available is false, the
\* client holds no stream and the stream it held is closed.
InDisconnect == pc[LC] \in {"d_join", "d_close", "d_none", "d_avail"}

C7_DisconnectEnds ==
    /\ InDisconnect => ENABLED DisconnectStep
    /\ Returned(LC, "disconnect") =>
          /\ ~raised[LC]
          /\ ~available
          /\ serial = 0
          /\ ~IsOpen(op[LC].held)

\* C7 witness: disconnect has returned after its wait for the reader expired,
\* having closed a stream, with the reader still blocked in its read.
C7_Witness ==
    /\ Returned(LC, "disconnect")
    /\ op[LC].expired /\ op[LC].held # 0
    /\ \E r \in Readers : rpc[r] = "read"

\* C8: a returned set_input(n), n in 1..6, that found auto_mode true has handed
\* the stream exactly "F1" and then "<n>!"; when both writes got through, the
\* bytes were "F1\r" then "<n>!\r"; and auto_mode is false unless another thread
\* has assigned it since.
C8_AutoModeInput ==
    \A t \in Callers :
        (Returned(t, "set_input") /\ op[t].n \in 1..6 /\ op[t].auto0) =>
            /\ issued[t] = << <<"F", "1">>, <<DigitStr(op[t].n), "!">> >>
            /\ (Len(wrote[t]) = 2 => wrote[t] = <<ModeOffLine, InputLine(op[t].n)>>)
            /\ (~touched[t] => auto_mode = FALSE)

\* C8 witness: such a call has returned with both writes through, before any
\* line from the device was processed.
C8_Witness ==
    \E t \in Callers :
        /\ Returned(t, "set_input") /\ op[t].n \in 1..6 /\ op[t].auto0
        /\ wrote[t] = <<ModeOffLine, InputLine(op[t].n)>>
        /\ ~touched[t] /\ notifications = 0 /\ auto_mode = FALSE

\* C9: a returned set_input(n), n in 1..6, that found auto_mode false has handed
\* the stream exactly "<n>!", written as "<n>!\r", and has not assigned
\* auto_mode; and current_input and audio_input change only in a step of a
\* reader thread that is inside the message callback.
C9_ManualReturn ==
    \A t \in Callers :
        (Returned(t, "set_input") /\ op[t].n \in 1..6 /\ ~op[t].auto0) =>
            /\ issued[t] = << <<DigitStr(op[t].n), "!">> >>
            /\ (wrote[t] # <<>> => wrote[t] = <<InputLine(op[t].n)>>)
            /\ (~touched[t] => auto_mode = FALSE)

InputsChange == current_input' # current_input \/ audio_input' # audio_input

CallbackStep ==
    /\ pc' = pc
    /\ \E r \in Readers :
          /\ rpc[r] \in {"callback", "handle"}
          /\ rpc'[r] # rpc[r] \/ rparts'[r] # rparts[r]

C9_ManualInput == []C9_ManualReturn /\ [][InputsChange => CallbackStep]_vars

\* C9 witness: such a call has returned with its write through, and no input is
\* known yet.
C9_Witness ==
    \E t \in Callers :
        /\ Returned(t, "set_input") /\ op[t].n \in 1..6 /\ ~op[t].auto0
        /\ wrote[t] = <<InputLine(op[t].n)>>
        /\ current_input = None /\ audio_input = None

\* C10: never is a reader thread about to assign auto_mode from a status part
\* while a caller is about to assign it too, or is between set_input's test of
\* auto_mode and its assignment.
ReaderAssignsAuto(r) ==
    rpc[r] = "handle" /\ rparts[r] # <<>> /\ StartsWith(Head(rparts[r]), <<"F">>)

CallerAssignsAuto(t) ==
    \/ pc[t] \in {"si_set", "sam_set"}
    \/ pc[t] \in {"sc_check", "sc_write", "sc_bytes"} /\ ret[t] = "si_set"

C10_NoConcurrentMutation ==
    ~(\E r \in Readers, t \in Callers : ReaderAssignsAuto(r) /\ CallerAssignsAuto(t))

\* C11: set_auto_mode(enable) hands the stream exactly "F2" when enable is true
\* and "F1" when it is false; a status part "F<x>" that a reader applies sets
\* auto_mode to (x = "2"); and no such part is applied while a set_auto_mode
\* call has begun and not yet returned, so that the call's own assignment of
\* auto_mode comes before any device line is processed after it.
InSetAutoMode(t) == op[t].kind = "set_auto_mode" /\ pc[t] # "idle"

ModeFieldStep(r) ==
    /\ rpc[r] = "handle" /\ rparts[r] # <<>>
    /\ StartsWith(Head(rparts[r]), <<"F">>)
    /\ rparts'[r] = Tail(rparts[r])

C11_ModeIssued ==
    \A t \in Callers :
        op[t].kind = "set_auto_mode" =>
            /\ issued[t] = << IF op[t].enable THEN <<"F", "2">> ELSE <<"F", "1">> >>
            /\ (pc[t] = "idle" /\ ~touched[t]) => auto_mode = op[t].enable

C11_ModeFieldApplied ==
    \A r \in Readers :
        ModeFieldStep(r) => auto_mode' = (Tail(Head(rparts[r])) = <<"2">>)

C11_ModeFieldAfterCall ==
    \A r \in Readers :
        ModeFieldStep(r) => \A t \in Callers : ~InSetAutoMode(t)

C11_OptimisticThenDevice ==
    /\ []C11_ModeIssued
    /\ [][C11_ModeFieldApplied /\ C11_ModeFieldAfterCall]_vars

\* a string that is empty after trimming: nothing but white space
Blank(s) == \A i \in 1..Len(s) : s[i] \in {" ", "\t", "\r", "\n"}

\* the messages reader r has passed to on_message that are not blank
NonBlank(r) == {i \in 1..Len(delivered[r]) : ~Blank(delivered[r][i])}

RECURSIVE NNonBlank(_)
NNonBlank(k) == IF k = 0 THEN 0 ELSE Cardinality(NonBlank(k)) + NNonBlank(k - 1)

\* reader r is inside the callback on a message that is not blank
Handling(r) == rpc[r] \in {"callback", "handle"} /\ ~Blank(rmsg[r])

\* C12: the notifications sent are as many as the delivered lines that are not
\* empty after trimming and whose handling is over: every such line, of
\* whatever kind, has sent exactly one, and a blank line none.
C12_OneNotificationPerLine ==
    notifications + Cardinality({r \in Readers : Handling(r)}) = NNonBlank(MaxStreams)

\* C12 witness: a status response that set four fields, a line of no known
\* form and a blank line have been handled, and two notifications were sent.
C12_Witness ==
    \E r \in Readers :
        /\ rpc[r] = "read" /\ Len(delivered[r]) = 3
        /\ \E i, j, k \in 1..3 :
              /\ delivered[r][i] = LineDump
              /\ delivered[r][j] = LineOther
              /\ Blank(delivered[r][k])
        /\ notifications = 2

\* the client holds no stream, or the port of the stream it holds is closed
StreamClosed == IF serial = 0 THEN TRUE ELSE ~isopen[serial]

\* s is what is left of a write of command c
IsRestOf(s, c) ==
    \E k \in 0..(Len(c) + 1) : s = SubSeq(c \o <<"\r">>, k + 1, Len(c) + 1)

\* no thread keeps bytes to write outside a write in progress, where they are
\* the rest of the command being sent; each call has completed at most one
\* write per command it sent, each of one of these commands with its CR; and
\* no call but a failed connect has raised
C13_NothingKept ==
    \A t \in Threads :
        /\ pc[t] # "sc_bytes" => pending[t].bytes = <<>>
        /\ pc[t] = "sc_bytes" => IsRestOf(pending[t].bytes, cmd[t])
        /\ Len(wrote[t]) <= Len(issued[t])
        /\ \A i \in 1..Len(wrote[t]) : wrote[t][i] = issued[t][i] \o <<"\r">>
              \/ \E j \in (i + 1)..Len(issued[t]) : wrote[t][i] = issued[t][j] \o <<"\r">>
        /\ raised[t] => (t = 0 /\ op[t].kind = "connect" /\ issued[t] = <<>>)

\* a step of send_command taken while the stream is not open writes nothing
\* and starts no write: the call returns, or goes on to the write that fails
C13_ClosedStep ==
    \A t \in Threads :
        (pc[t] \in {"sc_check", "sc_write"} /\ pc'[t] # pc[t] /\ StreamClosed) =>
            /\ pc'[t] \in {ret[t], "sc_write"}
            /\ written' = written /\ wrote' = wrote /\ pending' = pending
            /\ raised' = raised

\* the bytes the device gets come one at a time from a write in progress on an
\* open port
C13_ByteStep ==
    written' # written =>
        \E t \in Threads :
            /\ pc[t] = "sc_bytes" /\ pending[t].bytes # <<>>
            /\ isopen[pending[t].s]
            /\ pending'[t].bytes = Tail(pending[t].bytes)
            /\ written' = IF Head(pending[t].bytes) = "\r" THEN <<>>
                          ELSE Append(written, Head(pending[t].bytes))

\* C13: a send made while the stream is not open writes nothing, raises
\* nothing and leaves nothing to be written later; the bytes written come only
\* from writes in progress on an open port; and a send writes at most once.
C13_ClosedSendDropped ==
    /\ []C13_NothingKept
    /\ [][C13_ClosedStep /\ C13_ByteStep]_vars

\* C13 witness: set_auto_mode found no stream and returned with nothing
\* written; a connect made after it has returned, and what the device got is
\* the "I" of that connect alone.
C13_Witness ==
    \E t \in Callers :
        /\ Returned(t, "set_auto_mode") /\ op[t].closed
        /\ issued[t] # <<>> /\ wrote[t] = <<>> /\ ~raised[t]
        /\ Returned(LC, "connect") /\ wrote[LC] = << <<"I", "\r">> >>
        /\ written = <<>>

\* the step in which connect fails to open the stream
ConnectFailStep ==
    /\ pc[LC] = "idle" /\ pc'[LC] = "idle"
    /\ nops' = nops + 1 /\ wire' = wire
    /\ \A t \in Callers : op'[t] = op[t]
    /\ op'[LC].kind = "connect" /\ raised'[LC]

\* a failed open leaves the switcher, the client, the reader threads and the
\* device as they were
C14_FailStep ==
    ConnectFailStep =>
        /\ available' = available
        /\ serial' = serial /\ thread' = thread /\ nstreams' = nstreams
        /\ rpc' = rpc
        /\ written' = written /\ pending' = pending
        /\ issued'[LC] = <<>> /\ wrote'[LC] = <<>>

\* connect has raised only by returning at once, with no "I" handed to the
\* stream; a connect that has returned without raising has set available,
\* holds a stream and a started reader thread, and has handed the stream
\* exactly one "I", written as "I\r" when the write got through
C14_ConnectReturn ==
    op[LC].kind = "connect" =>
        /\ raised[LC] => (pc[LC] = "idle" /\ issued[LC] = <<>> /\ wrote[LC] = <<>>)
        /\ (pc[LC] = "idle" /\ ~raised[LC]) =>
              /\ available
              /\ serial # 0 /\ thread = serial /\ rpc[thread] # "none"
              /\ issued[LC] = << <<"I">> >>
              /\ wrote[LC] # <<>> => wrote[LC] = << <<"I", "\r">> >>

\* C14: a connect whose open fails raises, leaves available as it was (false
\* before, false after), starts no reader thread and writes no "I"; one whose
\* open succeeds sets available and sends "I" exactly once.
C14_ConnectOutcome == []C14_ConnectReturn /\ [][C14_FailStep]_vars

\* C14 witness: the first connect has failed to open the stream and raised:
\* available is false, no reader thread was started, nothing was written.
C14_Witness ==
    /\ Returned(LC, "connect") /\ raised[LC]
    /\ ~available /\ serial = 0 /\ thread = 0
    /\ \A r \in Readers : rpc[r] = "none"
    /\ nops = 1 /\ written = <<>>

\* the step in which reader r enters _handle_message with the message rmsg[r]
\* and takes its branch
Begins(r) == rpc[r] = "callback" /\ rpc'[r] # "callback"

\* the characters "0".."9": the digit of value k is DigitChars[k + 1]
DigitChars == <<"0", "1", "2", "3", "4", "5", "6", "7", "8", "9">>

KwAll == <<"A", "l", "l">>
KwVid == <<"V", "i", "d">>
KwAud == <<"A", "u", "d">>

\* the line "In<d> <kw>"
InputForm(d, kw) == <<"I", "n", d, " ">> \o kw

\* C15: handling "In<k> <kw>" sets current_input and audio_input to k for
\* All, current_input alone for Vid, audio_input alone for Aud, and changes
\* nothing else; when what follows "In" is no integer, no field changes.
C15_InputConfirmation ==
    [][\A r \in Readers :
         Begins(r) =>
            \A kw \in {KwAll, KwVid, KwAud} :
                /\ \A k \in 0..9 :
                      rmsg[r] = InputForm(DigitChars[k + 1], kw) =>
                         /\ current_input' = IF kw = KwAud THEN current_input ELSE <<k>>
                         /\ audio_input' = IF kw = KwVid THEN audio_input ELSE <<k>>
                         /\ auto_mode' = auto_mode /\ sw_version' = sw_version
                         /\ available' = available
                /\ rmsg[r] = InputForm("x", kw) =>
                      /\ current_input' = current_input /\ audio_input' = audio_input
                      /\ auto_mode' = auto_mode /\ sw_version' = sw_version
                      /\ available' = available]_vars

\* C15 witness: "In5 All", then "In2 Vid", then "In4 Aud" have been handled:
\* the video input is 2 and the audio input 4.
C15_Witness ==
    \E r \in Readers :
        /\ rpc[r] = "read"
        /\ delivered[r] = <<InputForm("5", KwAll), InputForm("2", KwVid),
                            InputForm("4", KwAud)>>
        /\ current_input = <<2>> /\ audio_input = <<4>>

\* the status responses "V3 A4 F2 QVER1.2 M6" and "Vx A1 F1 QVER7", and
\* their fields
DumpText ==
    <<"V", "3", " ", "A", "4", " ", "F", "2", " ",
      "Q", "V", "E", "R", "1", ".", "2", " ", "M", "6">>
DumpFields ==
    << <<"V", "3">>, <<"A", "4">>, <<"F", "2">>,
       <<"Q", "V", "E", "R", "1", ".", "2">>, <<"M", "6">> >>
DumpBadText ==
    <<"V", "x", " ", "A", "1", " ", "F", "1", " ", "Q", "V", "E", "R", "7">>
DumpBadFields ==
    << <<"V", "x">>, <<"A", "1">>, <<"F", "1">>, <<"Q", "V", "E", "R", "7">> >>

\* the step in which reader r applies the field at the head of rparts[r]
FieldStep(r) ==
    rpc[r] = "handle" /\ rparts[r] # <<>> /\ rparts'[r] = Tail(rparts[r])

\* the step in which reader r leaves _handle_message
Ends(r) == rpc[r] \in {"callback", "handle"} /\ rpc'[r] \notin {"callback", "handle"}

\* the fields of a status response are all looped over, in order, before the
\* handler is left
C16_Fields ==
    \A r \in Readers :
        /\ (Begins(r) /\ rmsg[r] = DumpText) => rparts'[r] = DumpFields
        /\ (Begins(r) /\ rmsg[r] = DumpBadText) => rparts'[r] = DumpBadFields
        /\ Ends(r) => rparts[r] = <<>>
        /\ (rpc[r] = "handle" /\ rparts'[r] # rparts[r]) => FieldStep(r)

\* what one field does: V<n> sets current_input, A<n> audio_input, F<x>
\* auto_mode, QVER<v> the firmware version, and nothing else changes; M<n>
\* and a V or A field with no integer change nothing
C16_FieldStep ==
    \A r \in Readers :
        FieldStep(r) =>
            LET part == Head(rparts[r])
                kind == part[1]
                same(f) ==
                    /\ f = "V" \/ current_input' = current_input
                    /\ f = "A" \/ audio_input' = audio_input
                    /\ f = "F" \/ auto_mode' = auto_mode
                    /\ f = "Q" \/ sw_version' = sw_version
                    /\ available' = available
            IN  /\ \A k \in 0..9 :
                      /\ part = <<"V", DigitChars[k + 1]>> =>
                            (current_input' = <<k>> /\ same("V"))
                      /\ part = <<"A", DigitChars[k + 1]>> =>
                            (audio_input' = <<k>> /\ same("A"))
                      /\ part = <<"M", DigitChars[k + 1]>> => same("M")
                /\ kind = "F" =>
                      (auto_mode' = (Tail(part) = <<"2">>) /\ same("F"))
                /\ part = <<"Q", "V", "E", "R", "1", ".", "2">> =>
                      (sw_version' = << <<"1", ".", "2">> >> /\ same("Q"))
                /\ part = <<"Q", "V", "E", "R", "7">> =>
                      (sw_version' = << <<"7">> >> /\ same("Q"))
                /\ part \in {<<"V", "x">>, <<"A", "x">>} => same("M")

\* a reader that has handled "V3 A4 F2 QVER1.2 M6" and taken no line since
\* has left input 3, audio input 4, auto mode and version "1.2"
C16_DumpApplied ==
    \A r \in Readers :
        (/\ delivered[r] # <<>>
         /\ delivered[r][Len(delivered[r])] = DumpText
         /\ rpc[r] \notin {"callback", "handle"}) =>
            /\ current_input = <<3>> /\ audio_input = <<4>>
            /\ auto_mode = TRUE
            /\ sw_version = << <<"1", ".", "2">> >>

\* C16: the fields of a status response are applied one by one and each on
\* its own: a field that holds no integer leaves its state field as it was,
\* and the fields after it are applied all the same.
C16_StatusDump ==
    /\ []C16_DumpApplied
    /\ [][C16_Fields /\ C16_FieldStep]_vars

\* C16 witness: "V3 A4 F2 QVER1.2 M6" and then "Vx A1 F1 QVER7" have been
\* handled: the video input is still 3, and the audio input, the mode and the
\* version are those of the second line.
C16_Witness ==
    \E r \in Readers :
        /\ rpc[r] = "read"
        /\ delivered[r] = <<DumpText, DumpBadText>>
        /\ current_input = <<3>> /\ audio_input = <<1>>
        /\ auto_mode = FALSE /\ sw_version = << <<"7">> >>

\* C17: handling "C<k>" or "c<k>" sets current_input and audio_input to k
\* and leaves auto_mode, the firmware version and available as they were;
\* when what follows the first character is no integer, no field changes.
C17_FrontPanelChange ==
    [][\A r \in Readers :
         Begins(r) =>
            \A c \in {"C", "c"} :
                /\ \A k \in 0..9 :
                      rmsg[r] = <<c, DigitChars[k + 1]>> =>
                         /\ current_input' = <<k>> /\ audio_input' = <<k>>
                         /\ auto_mode' = auto_mode /\ sw_version' = sw_version
                         /\ available' = available
                /\ rmsg[r] = <<c, "x">> =>
                      /\ current_input' = current_input /\ audio_input' = audio_input
                      /\ auto_mode' = auto_mode /\ sw_version' = sw_version
                      /\ available' = available]_vars

\* C17 witness: "c4" has been handled after a status response had set auto
\* mode, and "Cx" after it: both inputs are 4 and the mode is still auto.
C17_Witness ==
    \E r \in Readers :
        /\ rpc[r] = "read"
        /\ delivered[r] = <<DumpText, <<"c", "4">>, <<"C", "x">> >>
        /\ current_input = <<4>> /\ audio_input = <<4>>
        /\ auto_mode = TRUE

\* an error code, a reconfiguration notice, and lines of no known form
QuietLines ==
    {<<"E", "0", "6">>, <<"E", "1", "3">>,
     <<"R", "e", "c", "o", "n", "f", "i", "g">>, <<"X">>,
     <<"I", "n", "x", " ", "A", "l", "l">>, <<"C", "x">>}

\* a step reader r takes inside _handle_message
HandlerStep(r) ==
    /\ rpc[r] \in {"callback", "handle"}
    /\ rpc'[r] # rpc[r] \/ rparts'[r] # rparts[r]

\* C18: the handling of an error code ("E06"), of a reconfiguration notice or
\* of a line that is not recognised (of no known form, or with a number that
\* does not parse) changes none of current_input, audio_input, auto_mode,
\* available and the firmware version, and sends no command.
C18_QuietLines ==
    [][\A r \in Readers :
         (HandlerStep(r) /\ rmsg[r] \in QuietLines) =>
            /\ current_input' = current_input /\ audio_input' = audio_input
            /\ auto_mode' = auto_mode /\ available' = available
            /\ sw_version' = sw_version
            /\ issued' = issued /\ wrote' = wrote /\ written' = written
            /\ pc' = pc /\ cmd' = cmd /\ pending' = pending]_vars

\* C18 witness: "E06" and "Reconfig" have been handled after a status
\* response: the state is the one the status response left.
C18_Witness ==
    \E r \in Readers :
        /\ rpc[r] = "read"
        /\ delivered[r] = <<DumpText, <<"E", "0", "6">>,
                            <<"R", "e", "c", "o", "n", "f", "i", "g">> >>
        /\ notifications = 3
        /\ current_input = <<3>> /\ audio_input = <<4>> /\ auto_mode = TRUE
        /\ sw_version = << <<"1", ".", "2">> >> /\ available

\* reader r leaves _handle_message on a line it had been given just before
\* as well
EndsRepeat(r) ==
    /\ Ends(r)
    /\ Len(delivered[r]) >= 2
    /\ delivered[r][Len(delivered[r])] = delivered[r][Len(delivered[r]) - 1]

\* C19: when a line has been handled and the same line is handled again
\* straight after it, the switcher's fields are after the second handling what
\* they were after the first.
C19_Idempotent ==
    [][\A r \in Readers :
         EndsRepeat(r) =>
            /\ current_input' = after[r].current_input
            /\ audio_input' = after[r].audio_input
            /\ auto_mode' = after[r].auto_mode
            /\ sw_version' = after[r].sw_version]_vars

\* C19 witness: "V3 A4 F2 QVER1.2 M6" has been handled twice in a row from a
\* state it changed in every field, and the fields are those it set.
C19_Witness ==
    \E r \in Readers :
        /\ rpc[r] = "read"
        /\ delivered[r] = << <<"I", "n", "5", " ", "A", "l", "l">>, DumpText, DumpText>>
        /\ notifications = 3
        /\ current_input = <<3>> /\ audio_input = <<4>> /\ auto_mode = TRUE
        /\ sw_version = << <<"1", ".", "2">> >>

\* the characters of the bytes reader r has read: those that decode
Chars(r) == SelectSeq(taken[r], LAMBDA b : b # "xFF")

LineEnd(c) == c \in {"\r", "\n"}

\* <<i, j>>: characters i..j of s are a maximal non-empty run of characters
\* that are no line ends, and a line end follows it
IsRun(s, i, j) ==
    /\ i <= j /\ j < Len(s)
    /\ \A k \in i..j : ~LineEnd(s[k])
    /\ i = 1 \/ LineEnd(s[i - 1])
    /\ LineEnd(s[j + 1])

RunsOf(s) == {ij \in (1..Len(s)) \X (1..Len(s)) : IsRun(s, ij[1], ij[2])}

\* the characters after the last line end
RECURSIVE OpenRun(_)
OpenRun(s) ==
    IF s = <<>> \/ LineEnd(s[Len(s)]) THEN <<>>
    ELSE Append(OpenRun(SubSeq(s, 1, Len(s) - 1)), s[Len(s)])

\* the messages reader r has passed on are the terminated runs of the
\* characters it has read, each once and in their order in the stream; the
\* run still open is in its buffer
C20_Delivered ==
    \A r \in Readers :
        LET s == Chars(r)
            runs == RunsOf(s)
        IN  /\ Len(delivered[r]) = Cardinality(runs)
            /\ \A ij \in runs :
                  delivered[r][1 + Cardinality({xy \in runs : xy[1] < ij[1]})]
                     = SubSeq(s, ij[1], ij[2])
            /\ buffer[r] = OpenRun(s)

\* a step in which a reader reads no byte (a read that times out among
\* them) passes nothing on and keeps the buffer; so does the reading of a line
\* end on an empty buffer, or of a byte that does not decode
C20_QuietStep ==
    \A r \in Readers :
        /\ taken'[r] = taken[r] => (delivered'[r] = delivered[r] /\ buffer'[r] = buffer[r])
        /\ (/\ taken'[r] # taken[r] /\ buffer[r] = <<>>
            /\ LineEnd(taken'[r][Len(taken'[r])])) =>
              (delivered'[r] = delivered[r] /\ buffer'[r] = <<>>)
        /\ (taken'[r] # taken[r] /\ taken'[r][Len(taken'[r])] = "xFF") =>
              (delivered'[r] = delivered[r] /\ buffer'[r] = buffer[r])

\* C20: the reader passes to the handler exactly the maximal non-empty runs
\* of characters other than CR and LF that a CR or LF follows, each once and in
\* stream order; a line end on an empty buffer and a read that times out pass
\* nothing on, and a run that is not terminated is not passed on.
C20_Framing == []C20_Delivered /\ [][C20_QuietStep]_vars

\* C20 witness: the bytes "c", CR, LF, "4", LF were read: "c" and "4" were
\* passed on, the LF after the CR passed nothing on.
C20_Witness ==
    \E r \in Readers :
        /\ taken[r] = <<"c", "\r", "\n", "4", "\n">>
        /\ delivered[r] = << <<"c">>, <<"4">> >>
        /\ buffer[r] = <<>>

\* disconnect has closed the stream that thread t is writing to
ClosedUnder(t) ==
    /\ pc[t] = "sc_bytes"
    /\ op[LC].kind = "disconnect" /\ op[LC].held = pending[t].s
    /\ ~isopen[pending[t].s]

\* no call of an entity command has raised
C21_NoRaise == \A t \in Callers : ~raised[t]

\* a send that has passed its check and finds, on entering the write, the
\* stream closed or the client's reference cleared, returns with nothing
\* written and nothing raised
C21_LostBeforeWrite ==
    \A t \in Callers :
        (pc[t] = "sc_write" /\ pc'[t] # "sc_write" /\ StreamClosed) =>
            /\ pc'[t] = ret[t]
            /\ written' = written /\ wrote' = wrote /\ raised' = raised

\* a write that disconnect has closed the stream under ends with every byte
\* of the command out or none
C21_AllOrNothing ==
    \A t \in Callers :
        (ClosedUnder(t) /\ pc'[t] # "sc_bytes") =>
            pending[t].bytes \in {<<>>, cmd[t] \o <<"\r">>}

CallbackRaises(r) == failed'[r] # failed[r]

\* the exception leaves the reader in its loop, about to read unless the
\* stop signal is set, with the stream as it was and the buffer empty
C22_RaiseStep ==
    \A r \in Readers :
        CallbackRaises(r) =>
            /\ rpc'[r] = IF stop_event THEN "finally" ELSE "read"
            /\ isopen' = isopen /\ serial' = serial
            /\ buffer[r] = <<>> /\ buffer'[r] = <<>>

\* every run of characters that was terminated after a callback raised has
\* been passed to the callback all the same, in its place
C22_LaterDelivered ==
    \A r \in Readers :
        \A n \in failed[r] :
            LET s == Chars(r)
                runs == RunsOf(s)
            IN  /\ n <= Len(delivered[r])
                /\ Len(delivered[r]) = Cardinality(runs)
                /\ \A ij \in runs :
                      LET m == 1 + Cardinality({xy \in runs : xy[1] < ij[1]})
                      IN  m > n => delivered[r][m] = SubSeq(s, ij[1], ij[2])

\* C22: an exception of the message callback does not end the reader loop
\* and does not close the stream; the buffer has been emptied before the
\* callback ran, and the lines completed later are passed to the callback.
C22_CallbackError == []C22_LaterDelivered /\ [][C22_RaiseStep]_vars

\* C22 witness: the callback raised on the first line; the reader went on,
\* passed the second line on and is reading again, the stream still open.
C22_Witness ==
    \E r \in Readers :
        /\ failed[r] = {1}
        /\ taken[r] = <<"c", "\r", "4", "\n">>
        /\ delivered[r] = << <<"c">>, <<"4">> >>
        /\ rpc[r] = "read" /\ notifications = 2
        /\ serial # 0 /\ isopen[serial] /\ ~stop_event

====
